---- MODULE Spec2Model ----
(***************************************************************************)
(* modo: run() of src/lib.rs.  The main thread resolves the host name,     *)
(* parses the broker URL, registers the last will, creates the MQTT        *)
(* client (request channel of capacity 10), spawns the sampling thread and *)
(* then iterates the connection.  The sampling thread samples the user's   *)
(* idle time once a second and publishes idle_seconds, idle_status and,    *)
(* unless the idle time grew, last_active_timestamp.                       *)
(*                                                                         *)
(* Time is counted in whole seconds: a sleeping thread holds the number of *)
(* whole seconds it still has to sleep and Advance lets one second pass.   *)
(* thread::sleep is a lower bound, so a thread whose sleep is over may     *)
(* still be arbitrarily late.                                              *)
(***************************************************************************)
EXTENDS Integers, Sequences, FiniteSets

(***************************************************************************)
(* Bounds of the model.                                                    *)
(***************************************************************************)
\* idle samples are 0..MaxIdle seconds, plus the two largest u64 values
MaxIdle == 2
\* the thresholds given on the command line are 1..MaxThreshold seconds
MaxThreshold == 2

(***************************************************************************)
(* u64: four 16-bit limbs, most significant first.                         *)
(***************************************************************************)
Base == 2 ^ 16

U64(n) == <<0, 0, 0, n>>

U64_MAX == <<Base - 1, Base - 1, Base - 1, Base - 1>>

\* a < b on u64
Lt(a, b) == \E i \in 1..4 : a[i] < b[i] /\ \A j \in 1..(i - 1) : a[j] = b[j]

Gt(a, b) == Lt(b, a)

\* v - 1 for v > 0
RECURSIVE Borrow(_, _)
Borrow(v, i) ==
    IF v[i] > 0 THEN [v EXCEPT ![i] = @ - 1]
    ELSE Borrow([v EXCEPT ![i] = Base - 1], i - 1)

MinusOne(v) == Borrow(v, 4)

\* <<quotient, remainder>> of v divided by 10
DivRem10(v) ==
    LET c1 == v[1]
        c2 == (c1 % 10) * Base + v[2]
        c3 == (c2 % 10) * Base + v[3]
        c4 == (c3 % 10) * Base + v[4]
    IN  << <<c1 \div 10, c2 \div 10, c3 \div 10, c4 \div 10>>, c4 % 10 >>

DigitChar == <<"0", "1", "2", "3", "4", "5", "6", "7", "8", "9">>

RECURSIVE Digits(_)
Digits(v) ==
    IF v = U64(0) THEN <<>>
    ELSE LET qr == DivRem10(v) IN Append(Digits(qr[1]), DigitChar[qr[2] + 1])

\* u64::to_string: the decimal digits, most significant first
to_string(v) == IF v = U64(0) THEN <<"0">> ELSE Digits(v)

(***************************************************************************)
(* Text is a sequence of one-character strings.                            *)
(***************************************************************************)
Lower(c) ==
    CASE c = "A" -> "a"
      [] c = "B" -> "b"
      [] c = "H" -> "h"
      [] c = "M" -> "m"
      [] OTHER -> c

\* to_ascii_lowercase leaving the text as it was
to_ascii_lowercase_Keep(s) == s

to_ascii_lowercase(s) == [i \in 1..Len(s) |-> Lower(s[i])]

\* format!("{}/{}", a, b)
Join(a, b) == a \o <<"/">> \o b

(***************************************************************************)
(* Inputs.                                                                 *)
(***************************************************************************)
IdleValues == {U64(n) : n \in 0..MaxIdle} \cup {MinusOne(U64_MAX), U64_MAX}

ThresholdValues == {U64(n) : n \in 1..MaxThreshold}

RootTopics == {<<"m", "o", "d", "o">>, <<"#">>}

\* what hostname::get()?.into_string()? sees: the name, or one of its errors
HostnameResults ==
    { [ok |-> TRUE, name |-> <<"M", "y", "H">>],
      [ok |-> TRUE, name |-> <<"m", "y", "h">>],
      [ok |-> FALSE, name |-> <<"i", "o">>],
      [ok |-> FALSE, name |-> <<"u", "t", "f", "8">>] }

\* the broker URL: its scheme and whether it carries a client_id
MqttUrls ==
    { [scheme |-> "mqtt", client_id |-> TRUE],
      [scheme |-> "http", client_id |-> TRUE],
      [scheme |-> "mqtt", client_id |-> FALSE] }

Args ==
    [ mqtt_url : MqttUrls,
      threshold_active : ThresholdValues,
      threshold_idle : ThresholdValues,
      mqtt_root_topic : RootTopics ]

None == <<>>

VARIABLES
    args,                         \* the parsed command line
    mainPc,                       \* where run() is
    hostname,                     \* the lower-cased host name, None before
    topic,                        \* the base topic, None before it is built
    last_will,                    \* the last wills set in mqtt_options
    handles,                      \* live handles to the client (0: no client)
    requests,                     \* requests waiting in the client's channel
    connected,                    \* the transport holds a broker session
    notification,                 \* the item the connection iterator gave
    mainSleep,                    \* whole seconds the main thread still sleeps
    sinceErr,                     \* seconds since the last error was handled
    evPubs,                       \* publishes made for the current notification
    samplerPc,                    \* where the sampling thread is
    samplerSleep,                 \* whole seconds the sampler still sleeps
    idle,                         \* the sample of the current tick, or IdleErr
    previous_published_idle_sec,  \* the sampler's gate value
    tickPubs,                     \* publishes made in the current tick
    utc_now,                      \* what Utc::now() gave in the current tick
    previous_idle_sec             \* history: the sample of the last earlier
                                  \* tick that had one (kept by SpecRecorded)

mainVars ==
    <<mainPc, hostname, topic, last_will, notification, mainSleep, sinceErr, evPubs>>
transportVars == <<handles, requests, connected>>
samplerVars ==
    <<samplerPc, samplerSleep, idle, previous_published_idle_sec, tickPubs,
      utc_now, previous_idle_sec>>
vars == <<args, mainVars, transportVars, samplerVars>>

(***************************************************************************)
(* Constants of the program.                                               *)
(***************************************************************************)
\* Client::new(mqtt_options, 10): the capacity of the request channel
QueueCap == 10
\* thread::sleep(Duration::from_secs(1)) of the sampling loop
TickSecs == 1
\* thread::sleep(Duration::from_secs(10)) after a connection error
BackoffSecs == 10
\* thread::sleep(Duration::from_millis(100)) between two notifications
YieldMillis == 100

\* the whole seconds of a sleep of ms milliseconds
WholeSecs(ms) == ms \div 1000

IdleErr == <<"error">>

IsSample(r) == Len(r) = 4

(***************************************************************************)
(* The wall clock read by Utc::now(): seconds and milliseconds since the   *)
(* epoch.                                                                  *)
(***************************************************************************)
NowValues == {[secs |-> 86399, millis |-> 999], [secs |-> 86400, millis |-> 0]}

\* the clock was not read in this tick
NotRead == [secs |-> 0, millis |-> 0]

\* trunc_subsecs going to the nearest second
trunc_subsecs_Round(now) ==
    [secs |-> now.secs + (IF now.millis >= 500 THEN 1 ELSE 0), millis |-> 0]

\* DateTime::trunc_subsecs(0)
trunc_subsecs(now) == [now EXCEPT !.millis = 0]

\* now - Duration::from_secs(v) leaves the range of DateTime and panics;
\* every value of 2^48 seconds or more does (DateTime ends at year -262143)
SubOverflows(v) == v[1] # 0

\* now - Duration::from_secs(v), in seconds since the epoch, for v < 2^16
SubSecs(now, v) == now.secs - v[4]

Pad2(n) == <<DigitChar[((n \div 10) % 10) + 1], DigitChar[(n % 10) + 1]>>

Pad4(n) == Pad2(n \div 100) \o Pad2(n % 100)

\* the civil date <<year, month, day>> of a day number counted from the epoch
CivilFromDays(days) ==
    LET z == days + 719468
        era == z \div 146097
        doe == z - era * 146097
        yoe == (doe - doe \div 1460 + doe \div 36524 - doe \div 146096) \div 365
        doy == doe - (365 * yoe + yoe \div 4 - yoe \div 100)
        mp == (5 * doy + 2) \div 153
        d == doy - (153 * mp + 2) \div 5 + 1
        m == IF mp < 10 THEN mp + 3 ELSE mp - 9
        y == yoe + era * 400 + (IF m <= 2 THEN 1 ELSE 0)
    IN  <<y, m, d>>

\* DateTime<Utc>::to_rfc3339 of a time given in whole seconds since the epoch
to_rfc3339(secs) ==
    LET ymd == CivilFromDays(secs \div 86400)
        sod == secs % 86400
    IN  Pad4(ymd[1]) \o <<"-">> \o Pad2(ymd[2]) \o <<"-">> \o Pad2(ymd[3])
        \o <<"T">> \o Pad2(sod \div 3600) \o <<":">> \o Pad2((sod \div 60) % 60)
        \o <<":">> \o Pad2(sod % 60) \o <<"+", "0", "0", ":", "0", "0">>

(***************************************************************************)
(* The transport (rumqttc).  Client::publish refuses a topic that holds a  *)
(* wildcard and otherwise sends the request into the bounded channel,      *)
(* waiting while the channel is full.  The channel is emptied only by the  *)
(* event loop, which runs inside the connection iterator's next().         *)
(***************************************************************************)
valid_topic(t) == \A i \in 1..Len(t) : t[i] \notin {"+", "#"}

\* the publish call can return: at once with an error, or when there is room
CanReturn(t) == ~valid_topic(t) \/ requests < QueueCap

\* what one publish call leaves in the channel
Enqueue(t) == IF valid_topic(t) THEN requests + 1 ELSE requests

\* the record of one publish call
Publication(t, qos, retain, payload) ==
    [topic |-> t, qos |-> qos, retain |-> retain, payload |-> payload,
     ok |-> valid_topic(t)]

Leaf(base, leaf) == Join(base, leaf)

TrueText == <<"t", "r", "u", "e">>
FalseText == <<"f", "a", "l", "s", "e">>
ActiveText == <<"a", "c", "t", "i", "v", "e">>
IdleText == <<"i", "d", "l", "e">>
AwayText == <<"a", "w", "a", "y">>

ConnectedLeaf == <<"c", "o", "n", "n", "e", "c", "t", "e", "d">>
IdleSecondsLeaf == <<"i", "d", "l", "e", "_", "s", "e", "c", "o", "n", "d", "s">>
IdleStatusLeaf == <<"i", "d", "l", "e", "_", "s", "t", "a", "t", "u", "s">>
LastActiveLeaf == <<"l", "a", "s", "t", "_", "a", "c", "t", "i", "v", "e", "_",
                    "t", "i", "m", "e", "s", "t", "a", "m", "p">>

(***************************************************************************)
(* Init: run() is entered with the parsed arguments.                       *)
(***************************************************************************)
Init ==
    /\ args \in Args
    /\ mainPc = "hostname"
    /\ hostname = None
    /\ topic = None
    /\ last_will = <<>>
    /\ handles = 0
    /\ requests = 0
    /\ connected = FALSE
    /\ notification = "none"
    /\ mainSleep = 0
    /\ sinceErr = BackoffSecs
    /\ evPubs = <<>>
    /\ samplerPc = "unspawned"
    /\ samplerSleep = 0
    /\ idle = None
    /\ previous_published_idle_sec = None
    /\ tickPubs = <<>>
    /\ utc_now = NotRead
    /\ previous_idle_sec = None

(***************************************************************************)
(* Startup, lines 34-49.                                                   *)
(***************************************************************************)
\* hostname::get()?.into_string()?.to_ascii_lowercase() and the base topic
GetHostname ==
    /\ mainPc = "hostname"
    /\ \E h \in HostnameResults :
          IF h.ok
          THEN /\ hostname' = to_ascii_lowercase(h.name)
               /\ topic' = Join(args.mqtt_root_topic, hostname')
               /\ mainPc' = "parse_url"
          ELSE /\ mainPc' = "returned_err"
               /\ UNCHANGED <<hostname, topic>>
    /\ UNCHANGED <<args, last_will, notification, mainSleep, sinceErr, evPubs,
                   transportVars, samplerVars>>

\* MqttOptions::parse_url accepts the mqtt schemes and wants a client_id
ParseUrlOk(url) == url.scheme \in {"mqtt", "mqtts"} /\ url.client_id

\* ParseUrl going on whatever parse_url returned
ParseUrl_Unchecked ==
    /\ mainPc = "parse_url"
    /\ mainPc' = "last_will"
    /\ UNCHANGED <<args, hostname, topic, last_will, notification, mainSleep,
                   sinceErr, evPubs, transportVars, samplerVars>>

ParseUrl ==
    /\ mainPc = "parse_url"
    /\ mainPc' = IF ParseUrlOk(args.mqtt_url) THEN "last_will" ELSE "returned_err"
    /\ UNCHANGED <<args, hostname, topic, last_will, notification, mainSleep,
                   sinceErr, evPubs, transportVars, samplerVars>>

\* LastWill on a topic built without the host name
LastWill_NoHostname ==
    [topic |-> Join(args.mqtt_root_topic, ConnectedLeaf),
     message |-> FalseText, qos |-> "AtLeastOnce", retain |-> TRUE]

LastWill ==
    [topic |-> Join(Join(args.mqtt_root_topic, hostname), ConnectedLeaf),
     message |-> FalseText, qos |-> "AtLeastOnce", retain |-> TRUE]

SetLastWill ==
    /\ mainPc = "last_will"
    /\ last_will' = Append(last_will, LastWill)
    /\ mainPc' = "client_new"
    /\ UNCHANGED <<args, hostname, topic, notification, mainSleep, sinceErr,
                   evPubs, transportVars, samplerVars>>

\* Client::new, Arc::new and the clone for the main thread
ClientNew ==
    /\ mainPc = "client_new"
    /\ handles' = 2
    /\ requests' = 0
    /\ connected' = FALSE
    /\ mainPc' = "spawn"
    /\ UNCHANGED <<args, hostname, topic, last_will, notification, mainSleep,
                   sinceErr, evPubs, samplerVars>>

\* thread::spawn: the thread sets its gate value and enters its first sleep
Spawn ==
    /\ mainPc = "spawn"
    /\ samplerPc' = "sleep"
    /\ samplerSleep' = TickSecs
    /\ previous_published_idle_sec' = MinusOne(U64_MAX)
    /\ mainPc' = "poll"
    /\ UNCHANGED <<args, hostname, topic, last_will, notification, mainSleep,
                   sinceErr, evPubs, transportVars, idle, tickPubs, utc_now,
                   previous_idle_sec>>

(***************************************************************************)
(* The connection loop, lines 102-141.                                     *)
(***************************************************************************)
\* the items mqtt_connection.iter() yields, by the arm of the match they take
Notifications ==
    {"ConnAck", "PubAck", "PingResp", "IncomingOther",
     "OutgoingPublish", "PingReq", "OutgoingOther", "Err"}

\* whether the event loop can produce n now
CanYield(n) ==
    CASE n = "ConnAck" -> ~connected
      [] n = "Err" -> TRUE
      [] n = "OutgoingPublish" -> connected /\ requests > 0
      [] OTHER -> connected

\* iter().next(): the event loop runs until it has one item to give.  It
\* takes a request out of the channel only to send it (OutgoingPublish);
\* on an error the session is gone, and the requests still in the channel
\* stay there or are moved to the event loop's own pending list.
Poll ==
    /\ mainPc = "poll"
    /\ \E n \in Notifications :
          /\ CanYield(n)
          /\ notification' = n
          /\ connected' = CASE n = "ConnAck" -> TRUE
                            [] n = "Err" -> FALSE
                            [] OTHER -> connected
          /\ \/ /\ n = "OutgoingPublish"
                /\ requests' = requests - 1
             \/ /\ n = "Err"
                /\ requests' \in {requests, 0}
             \/ /\ n \notin {"OutgoingPublish", "Err"}
                /\ requests' = requests
    /\ evPubs' = <<>>
    /\ mainPc' = "handle"
    /\ UNCHANGED <<args, hostname, topic, last_will, handles, mainSleep, sinceErr,
                   samplerVars>>

\* the publish of the ConnAck arm, lines 112-117
ConnectedPublication ==
    Publication(Leaf(topic, ConnectedLeaf), "AtLeastOnce", TRUE, TrueText)

\* HandleConnAck without its publish
HandleConnAck_NoPublish ==
    /\ mainPc = "handle"
    /\ notification = "ConnAck"
    /\ mainPc' = "yield"
    /\ mainSleep' = WholeSecs(YieldMillis)
    /\ UNCHANGED <<args, hostname, topic, last_will, notification, sinceErr,
                   evPubs, transportVars, samplerVars>>

\* Packet::ConnAck: publish connected = true, then the 100 ms sleep
HandleConnAck ==
    /\ mainPc = "handle"
    /\ notification = "ConnAck"
    /\ CanReturn(ConnectedPublication.topic)
    /\ requests' = Enqueue(ConnectedPublication.topic)
    /\ evPubs' = Append(evPubs, ConnectedPublication)
    /\ mainPc' = "yield"
    /\ mainSleep' = WholeSecs(YieldMillis)
    /\ UNCHANGED <<args, hostname, topic, last_will, notification, sinceErr,
                   handles, connected, samplerVars>>

\* PubAck, PingResp, Outgoing::Publish, Outgoing::PingReq: nothing
HandleSilent ==
    /\ mainPc = "handle"
    /\ notification \in {"PubAck", "PingResp", "OutgoingPublish", "PingReq"}
    /\ mainPc' = "yield"
    /\ mainSleep' = WholeSecs(YieldMillis)
    /\ UNCHANGED <<args, hostname, topic, last_will, notification, sinceErr,
                   evPubs, transportVars, samplerVars>>

\* HandleLogged publishing connected = true as the ConnAck arm does
HandleLogged_Publishes ==
    /\ mainPc = "handle"
    /\ notification \in {"IncomingOther", "OutgoingOther"}
    /\ CanReturn(ConnectedPublication.topic)
    /\ requests' = Enqueue(ConnectedPublication.topic)
    /\ evPubs' = Append(evPubs, ConnectedPublication)
    /\ mainPc' = "yield"
    /\ mainSleep' = WholeSecs(YieldMillis)
    /\ UNCHANGED <<args, hostname, topic, last_will, notification, sinceErr,
                   handles, connected, samplerVars>>

\* any other packet: printed
HandleLogged ==
    /\ mainPc = "handle"
    /\ notification \in {"IncomingOther", "OutgoingOther"}
    /\ mainPc' = "yield"
    /\ mainSleep' = WholeSecs(YieldMillis)
    /\ UNCHANGED <<args, hostname, topic, last_will, notification, sinceErr,
                   evPubs, transportVars, samplerVars>>

\* HandleErr without the 10 s sleep
HandleErr_NoSleep ==
    /\ mainPc = "handle"
    /\ notification = "Err"
    /\ mainPc' = "backoff"
    /\ mainSleep' = 0
    /\ sinceErr' = 0
    /\ UNCHANGED <<args, hostname, topic, last_will, notification, evPubs,
                   transportVars, samplerVars>>

\* Err(e): printed, then the 10 s sleep begins
HandleErr ==
    /\ mainPc = "handle"
    /\ notification = "Err"
    /\ mainPc' = "backoff"
    /\ mainSleep' = BackoffSecs
    /\ sinceErr' = 0
    /\ UNCHANGED <<args, hostname, topic, last_will, notification, evPubs,
                   transportVars, samplerVars>>

\* the 10 s sleep is over: on to the 100 ms sleep
BackoffDone ==
    /\ mainPc = "backoff"
    /\ mainSleep = 0
    /\ mainPc' = "yield"
    /\ mainSleep' = WholeSecs(YieldMillis)
    /\ UNCHANGED <<args, hostname, topic, last_will, notification, sinceErr,
                   evPubs, transportVars, samplerVars>>

\* the 100 ms sleep is over: ask the iterator for the next item
YieldDone ==
    /\ mainPc = "yield"
    /\ mainSleep = 0
    /\ mainPc' = "poll"
    /\ UNCHANGED <<args, hostname, topic, last_will, notification, mainSleep,
                   sinceErr, evPubs, transportVars, samplerVars>>

(***************************************************************************)
(* The sampling thread, lines 48-99.                                       *)
(***************************************************************************)
\* idle_status with both comparisons taken as <=
idle_status_Inclusive(i, threshold_active, threshold_idle) ==
    IF ~Gt(i, threshold_active) THEN ActiveText
    ELSE IF ~Gt(i, threshold_idle) THEN IdleText
    ELSE AwayText

\* idle_status asking for "away" before it asks for "active"
idle_status_AwayFirst(i, threshold_active, threshold_idle) ==
    IF ~Lt(i, threshold_idle) THEN AwayText
    ELSE IF Lt(i, threshold_active) THEN ActiveText
    ELSE IdleText

\* lines 69-73
idle_status(i, threshold_active, threshold_idle) ==
    IF Lt(i, threshold_active) THEN ActiveText
    ELSE IF Lt(i, threshold_idle) THEN IdleText
    ELSE AwayText

\* Suppressed with no gate: no tick ends at line 84
Suppressed_Never(i, previous) == FALSE

\* line 83: the tick ends without a last_active_timestamp
Suppressed(i, previous) == Gt(i, previous)

\* Sample where a failed query also puts the gate value back to its start
Sample_ResetsGate ==
    /\ samplerPc = "sleep"
    /\ samplerSleep = 0
    /\ \E r \in IdleValues \cup {IdleErr} :
          /\ idle' = r
          /\ IF IsSample(r)
             THEN /\ samplerPc' = "pub_seconds"
                  /\ samplerSleep' = 0
                  /\ UNCHANGED previous_published_idle_sec
             ELSE /\ samplerPc' = "sleep"
                  /\ samplerSleep' = TickSecs
                  /\ previous_published_idle_sec' = MinusOne(U64_MAX)
    /\ tickPubs' = <<>>
    /\ utc_now' = NotRead
    /\ UNCHANGED <<args, mainVars, transportVars, previous_idle_sec>>

\* the sleep is over and UserIdle::get_time() is asked; an error ends the tick
Sample ==
    /\ samplerPc = "sleep"
    /\ samplerSleep = 0
    /\ \E r \in IdleValues \cup {IdleErr} :
          /\ idle' = r
          /\ IF IsSample(r)
             THEN /\ samplerPc' = "pub_seconds"
                  /\ samplerSleep' = 0
             ELSE /\ samplerPc' = "sleep"
                  /\ samplerSleep' = TickSecs
    /\ tickPubs' = <<>>
    /\ utc_now' = NotRead
    /\ UNCHANGED <<args, mainVars, transportVars, previous_published_idle_sec,
                   previous_idle_sec>>

\* IdleSecondsPublication sending the gate value in place of the sample
IdleSecondsPublication_Previous ==
    Publication(Leaf(topic, IdleSecondsLeaf), "AtLeastOnce", TRUE,
                to_string(previous_published_idle_sec))

IdleSecondsPublication ==
    Publication(Leaf(topic, IdleSecondsLeaf), "AtLeastOnce", TRUE, to_string(idle))

\* PublishIdleSeconds giving the tick up when the publish fails
PublishIdleSeconds_GivesUp ==
    /\ samplerPc = "pub_seconds"
    /\ CanReturn(IdleSecondsPublication.topic)
    /\ requests' = Enqueue(IdleSecondsPublication.topic)
    /\ tickPubs' = Append(tickPubs, IdleSecondsPublication)
    /\ IF IdleSecondsPublication.ok
       THEN /\ samplerPc' = "pub_status"
            /\ samplerSleep' = samplerSleep
       ELSE /\ samplerPc' = "sleep"
            /\ samplerSleep' = TickSecs
    /\ UNCHANGED <<args, mainVars, handles, connected, idle,
                   previous_published_idle_sec, utc_now, previous_idle_sec>>

PublishIdleSeconds ==
    /\ samplerPc = "pub_seconds"
    /\ CanReturn(IdleSecondsPublication.topic)
    /\ requests' = Enqueue(IdleSecondsPublication.topic)
    /\ tickPubs' = Append(tickPubs, IdleSecondsPublication)
    /\ samplerPc' = "pub_status"
    /\ UNCHANGED <<args, mainVars, handles, connected, samplerSleep, idle,
                   previous_published_idle_sec, utc_now, previous_idle_sec>>

IdleStatusPublication ==
    Publication(Leaf(topic, IdleStatusLeaf), "AtLeastOnce", TRUE,
                idle_status(idle, args.threshold_active, args.threshold_idle))

\* the idle_status publish, then the gate of line 83
PublishIdleStatus ==
    /\ samplerPc = "pub_status"
    /\ CanReturn(IdleStatusPublication.topic)
    /\ requests' = Enqueue(IdleStatusPublication.topic)
    /\ tickPubs' = Append(tickPubs, IdleStatusPublication)
    /\ IF Suppressed(idle, previous_published_idle_sec)
       THEN /\ samplerPc' = "sleep"
            /\ samplerSleep' = TickSecs
       ELSE /\ samplerPc' = "pub_ts"
            /\ samplerSleep' = 0
    /\ UNCHANGED <<args, mainVars, handles, connected, idle,
                   previous_published_idle_sec, utc_now, previous_idle_sec>>

LastActivePublication(now) ==
    Publication(Leaf(topic, LastActiveLeaf), "AtLeastOnce", TRUE,
                to_rfc3339(SubSecs(trunc_subsecs(now), idle)))

\* PublishLastActive taking the new gate value only from a publish that went well
PublishLastActive_OnSuccess ==
    /\ samplerPc = "pub_ts"
    /\ ~SubOverflows(idle)
    /\ \E now \in NowValues :
          LET p == LastActivePublication(now)
          IN  /\ CanReturn(p.topic)
              /\ requests' = Enqueue(p.topic)
              /\ tickPubs' = Append(tickPubs, p)
              /\ utc_now' = now
              /\ previous_published_idle_sec' =
                    IF p.ok THEN idle ELSE previous_published_idle_sec
    /\ samplerPc' = "sleep"
    /\ samplerSleep' = TickSecs
    /\ UNCHANGED <<args, mainVars, handles, connected, idle, previous_idle_sec>>

\* lines 87-97: the timestamp, its publish and the new gate value
PublishLastActive ==
    /\ samplerPc = "pub_ts"
    /\ ~SubOverflows(idle)
    /\ \E now \in NowValues :
          LET p == LastActivePublication(now)
          IN  /\ CanReturn(p.topic)
              /\ requests' = Enqueue(p.topic)
              /\ tickPubs' = Append(tickPubs, p)
              /\ utc_now' = now
    /\ previous_published_idle_sec' = idle
    /\ samplerPc' = "sleep"
    /\ samplerSleep' = TickSecs
    /\ UNCHANGED <<args, mainVars, handles, connected, idle, previous_idle_sec>>

\* line 88 panics: the thread is gone, and its handle to the client with it
TimestampPanic ==
    /\ samplerPc = "pub_ts"
    /\ SubOverflows(idle)
    /\ samplerPc' = "panicked"
    /\ handles' = handles - 1
    /\ UNCHANGED <<args, mainVars, requests, connected, samplerSleep, idle,
                   previous_published_idle_sec, tickPubs, utc_now,
                   previous_idle_sec>>

(***************************************************************************)
(* One second passes.                                                      *)
(***************************************************************************)
Elapse(left) == IF left > 0 THEN left - 1 ELSE 0

Advance ==
    /\ mainSleep > 0 \/ samplerSleep > 0 \/ sinceErr < BackoffSecs
    /\ mainSleep' = Elapse(mainSleep)
    /\ samplerSleep' = Elapse(samplerSleep)
    /\ sinceErr' = IF sinceErr < BackoffSecs THEN sinceErr + 1 ELSE sinceErr
    /\ UNCHANGED <<args, mainPc, hostname, topic, last_will, notification, evPubs,
                   transportVars, samplerPc, idle, previous_published_idle_sec,
                   tickPubs, utc_now, previous_idle_sec>>

Next ==
    \/ GetHostname
    \/ ParseUrl
    \/ SetLastWill
    \/ ClientNew
    \/ Spawn
    \/ Poll
    \/ HandleConnAck
    \/ HandleSilent
    \/ HandleLogged
    \/ HandleErr
    \/ BackoffDone
    \/ YieldDone
    \/ Sample
    \/ PublishIdleSeconds
    \/ PublishIdleStatus
    \/ PublishLastActive
    \/ TimestampPanic
    \/ Advance

Spec == Init /\ [][Next]_vars

(***************************************************************************)
(* The same program with prompt threads: a thread that can take its next   *)
(* step takes it before the second is over, so a second passes only while  *)
(* every thread sleeps, waits in the iterator for a notification, or waits *)
(* in a publish for room in the channel.                                   *)
(***************************************************************************)
MainReady ==
    \/ mainPc \in {"hostname", "parse_url", "last_will", "client_new", "spawn"}
    \/ mainPc = "handle" /\ notification # "ConnAck"
    \/ mainPc = "handle" /\ CanReturn(Leaf(topic, ConnectedLeaf))
    \/ mainPc \in {"backoff", "yield"} /\ mainSleep = 0

SamplerReady ==
    \/ samplerPc = "sleep" /\ samplerSleep = 0
    \/ samplerPc \in {"pub_seconds", "pub_status"}
          /\ CanReturn(Leaf(topic, IdleSecondsLeaf))
    \/ samplerPc = "pub_ts"
          /\ (SubOverflows(idle) \/ CanReturn(Leaf(topic, LastActiveLeaf)))

AdvancePrompt ==
    /\ ~MainReady
    /\ ~SamplerReady
    /\ Advance

NextPrompt ==
    \/ GetHostname
    \/ ParseUrl
    \/ SetLastWill
    \/ ClientNew
    \/ Spawn
    \/ Poll
    \/ HandleConnAck
    \/ HandleSilent
    \/ HandleLogged
    \/ HandleErr
    \/ BackoffDone
    \/ YieldDone
    \/ Sample
    \/ PublishIdleSeconds
    \/ PublishIdleStatus
    \/ PublishLastActive
    \/ TimestampPanic
    \/ AdvancePrompt

SpecPrompt == Init /\ [][NextPrompt]_vars

(***************************************************************************)
(* The same program with a history variable: when a tick begins,           *)
(* previous_idle_sec takes the sample of the tick before it, if that tick  *)
(* had one, and so holds the last sample taken before the current tick.    *)
(* The program itself neither reads nor writes it.                         *)
(***************************************************************************)
SampleRecorded ==
    /\ samplerPc = "sleep"
    /\ samplerSleep = 0
    /\ \E r \in IdleValues \cup {IdleErr} :
          /\ idle' = r
          /\ IF IsSample(r)
             THEN /\ samplerPc' = "pub_seconds"
                  /\ samplerSleep' = 0
             ELSE /\ samplerPc' = "sleep"
                  /\ samplerSleep' = TickSecs
    /\ tickPubs' = <<>>
    /\ utc_now' = NotRead
    /\ previous_idle_sec' = IF IsSample(idle) THEN idle ELSE previous_idle_sec
    /\ UNCHANGED <<args, mainVars, transportVars, previous_published_idle_sec>>

NextRecorded ==
    \/ GetHostname
    \/ ParseUrl
    \/ SetLastWill
    \/ ClientNew
    \/ Spawn
    \/ Poll
    \/ HandleConnAck
    \/ HandleSilent
    \/ HandleLogged
    \/ HandleErr
    \/ BackoffDone
    \/ YieldDone
    \/ SampleRecorded
    \/ PublishIdleSeconds
    \/ PublishIdleStatus
    \/ PublishLastActive
    \/ TimestampPanic
    \/ Advance

SpecRecorded == Init /\ [][NextRecorded]_vars

(***************************************************************************)
(* Vocabulary of the properties.                                           *)
(***************************************************************************)
LoopPcs == {"poll", "handle", "backoff", "yield"}

PublishPcs == {"pub_seconds", "pub_status", "pub_ts"}

Sentinel == MinusOne(U64_MAX)

\* the publishes of pubs that went to base/leaf
OnLeaf(pubs, leaf) == {i \in 1..Len(pubs) : pubs[i].topic = Leaf(topic, leaf)}

\* the decimal number a text spells, read digit by digit
DigitValue(c) == CHOOSE d \in 0..9 : DigitChar[d + 1] = c

TimesTenPlus(v, d) ==
    LET c4 == v[4] * 10 + d
        c3 == v[3] * 10 + c4 \div Base
        c2 == v[2] * 10 + c3 \div Base
        c1 == v[1] * 10 + c2 \div Base
    IN  <<c1 % Base, c2 % Base, c3 % Base, c4 % Base>>

RECURSIVE ParseDecimal(_)
ParseDecimal(t) ==
    IF t = <<>> THEN U64(0)
    ELSE TimesTenPlus(ParseDecimal(SubSeq(t, 1, Len(t) - 1)), DigitValue(t[Len(t)]))

\* the sampler has a sample and is through the two unconditional publishes
PastStatus == IsSample(idle) /\ samplerPc \in {"sleep", "pub_ts", "panicked"}

\* this step ends a tick that had a sample
TickEnds ==
    /\ samplerPc \in {"pub_status", "pub_ts"}
    /\ samplerPc' \in {"sleep", "panicked"}

\* this step is a sample that failed
SampleFails ==
    /\ samplerPc = "sleep"
    /\ samplerSleep = 0
    /\ samplerVars' # samplerVars
    /\ idle' = IdleErr

\* a publish call that cannot return: the channel is full
MainBlocked ==
    mainPc = "handle" /\ notification = "ConnAck" /\ ~CanReturn(Leaf(topic, ConnectedLeaf))

SamplerBlocked ==
    samplerPc \in PublishPcs /\ ~CanReturn(Leaf(topic, IdleSecondsLeaf))

\* a connection loop waiting in its publish waits forever: nothing but its own
\* iterator takes requests out of the channel
MainBlockedForever == [][MainBlocked => MainBlocked']_vars

\* the sampler waits for room while the connection loop sleeps after an Err
BlockedDuringBackoff == mainPc = "backoff" /\ mainSleep > 0 /\ SamplerBlocked

\* the ASCII letters, upper case and lower case in the same order
UpperLetters ==
    <<"A", "B", "C", "D", "E", "F", "G", "H", "I", "J", "K", "L", "M",
      "N", "O", "P", "Q", "R", "S", "T", "U", "V", "W", "X", "Y", "Z">>

LowerLetters ==
    <<"a", "b", "c", "d", "e", "f", "g", "h", "i", "j", "k", "l", "m",
      "n", "o", "p", "q", "r", "s", "t", "u", "v", "w", "x", "y", "z">>

\* low is the text given with every upper-case letter made lower case
IsLowerCaseOf(low, given) ==
    /\ Len(low) = Len(given)
    /\ \A i \in 1..Len(low) :
          /\ \A k \in 1..Len(UpperLetters) : low[i] # UpperLetters[k]
          /\ \/ low[i] = given[i]
             \/ \E k \in 1..Len(UpperLetters) :
                   given[i] = UpperLetters[k] /\ low[i] = LowerLetters[k]

\* the number spelled by the digits t[a..b]
RECURSIVE NumberAt(_, _, _)
NumberAt(t, a, b) ==
    IF b < a THEN 0 ELSE NumberAt(t, a, b - 1) * 10 + DigitValue(t[b])

\* the day number, counted from the epoch, of a civil date with y >= 1
DaysFromCivil(y, m, d) ==
    LET yy == IF m <= 2 THEN y - 1 ELSE y
        era == yy \div 400
        yoe == yy - era * 400
        doy == (153 * (IF m > 2 THEN m - 3 ELSE m + 9) + 2) \div 5 + d - 1
        doe == yoe * 365 + yoe \div 4 - yoe \div 100 + doy
    IN  era * 146097 + doe - 719468

\* t has the shape YYYY-MM-DDTHH:MM:SS+00:00, with no fraction of a second
IsWholeSecondUtc(t) ==
    /\ Len(t) = 25
    /\ \A i \in {1, 2, 3, 4, 6, 7, 9, 10, 12, 13, 15, 16, 18, 19} :
          \E d \in 1..10 : DigitChar[d] = t[i]
    /\ t[5] = "-" /\ t[8] = "-" /\ t[11] = "T" /\ t[14] = ":" /\ t[17] = ":"
    /\ SubSeq(t, 20, 25) = <<"+", "0", "0", ":", "0", "0">>

\* the seconds since the epoch such a text names
SecondsOfRfc3339(t) ==
    DaysFromCivil(NumberAt(t, 1, 4), NumberAt(t, 6, 7), NumberAt(t, 9, 10)) * 86400
      + NumberAt(t, 12, 13) * 3600 + NumberAt(t, 15, 16) * 60 + NumberAt(t, 18, 19)

(***************************************************************************)
(* C1: with threshold_active < threshold_idle, the idle_status published   *)
(* for a sample is "active" exactly when the sample is below               *)
(* threshold_active, "idle" exactly when it is at or above                 *)
(* threshold_active and below threshold_idle, and "away" exactly when it   *)
(* is at or above threshold_idle.                                          *)
(***************************************************************************)
C1_StatusBuckets ==
    Lt(args.threshold_active, args.threshold_idle) =>
        \A i \in OnLeaf(tickPubs, IdleStatusLeaf) :
            LET p == tickPubs[i].payload
            IN  /\ p = ActiveText <=> Lt(idle, args.threshold_active)
                /\ p = IdleText <=> /\ ~Lt(idle, args.threshold_active)
                                    /\ Lt(idle, args.threshold_idle)
                /\ p = AwayText <=> ~Lt(idle, args.threshold_idle)

\* a sample exactly at threshold_active was published as "idle"
C1_Witness ==
    /\ Lt(args.threshold_active, args.threshold_idle)
    /\ idle = args.threshold_active
    /\ \E i \in OnLeaf(tickPubs, IdleStatusLeaf) : tickPubs[i].payload = IdleText

(***************************************************************************)
(* C2: a tick that had a sample ends with last_active_timestamp published  *)
(* if and only if the sample is not above the previous_published_idle_sec  *)
(* the tick began with.                                                    *)
(***************************************************************************)
C2_GateIff ==
    [][TickEnds =>
          (OnLeaf(tickPubs, LastActiveLeaf)' # {}
             <=> ~Gt(idle, previous_published_idle_sec))]_vars

(***************************************************************************)
(* C3: once a tick with a sample is through its unconditional part, it has *)
(* made exactly one idle_seconds publish, whose payload spells the sample, *)
(* and exactly one idle_status publish, whose payload is the sample's      *)
(* classification, whether the tick goes on to the timestamp or not.       *)
(***************************************************************************)
C3_SecondsAndStatus ==
    /\ PastStatus =>
          /\ Len(tickPubs) >= 2
          /\ OnLeaf(tickPubs, IdleSecondsLeaf) = {1}
          /\ OnLeaf(tickPubs, IdleStatusLeaf) = {2}
          /\ ParseDecimal(tickPubs[1].payload) = idle
          /\ tickPubs[2].payload \in {ActiveText, IdleText, AwayText}
          /\ tickPubs[2].payload = ActiveText <=> Lt(idle, args.threshold_active)
          /\ tickPubs[2].payload = AwayText <=>
                ~Lt(idle, args.threshold_active) /\ ~Lt(idle, args.threshold_idle)
    /\ samplerPc = "pub_status" =>
          /\ Len(tickPubs) = 1
          /\ OnLeaf(tickPubs, IdleSecondsLeaf) = {1}
          /\ ParseDecimal(tickPubs[1].payload) = idle
    /\ samplerPc = "pub_seconds" => tickPubs = <<>>

\* a tick whose timestamp was suppressed made the two publishes
C3_Witness ==
    /\ samplerPc = "sleep"
    /\ IsSample(idle)
    /\ Gt(idle, previous_published_idle_sec)
    /\ Len(tickPubs) = 2
    /\ tickPubs[1].ok
    /\ tickPubs[1].payload = <<"2">>

(***************************************************************************)
(* C4: a sample that fails publishes nothing, leaves the request channel   *)
(* and previous_published_idle_sec as they were and puts the thread back   *)
(* into its one-second sleep; after a failed sample the thread's next step *)
(* is again a sample.                                                      *)
(***************************************************************************)
C4_FailedSample ==
    [][/\ SampleFails =>
             /\ tickPubs' = <<>>
             /\ requests' = requests
             /\ previous_published_idle_sec' = previous_published_idle_sec
             /\ samplerPc' = "sleep"
             /\ samplerSleep' = TickSecs
       /\ (idle = IdleErr /\ samplerVars' # samplerVars) =>
             /\ samplerPc = "sleep"
             /\ tickPubs = <<>>
             /\ \/ samplerSleep' < samplerSleep
                \/ samplerSleep = 0 /\ idle' \in IdleValues \cup {IdleErr}]_vars

\* a failed sample after a tick that published its timestamp
C4_Witness ==
    /\ idle = IdleErr
    /\ samplerSleep = TickSecs
    /\ previous_published_idle_sec = U64(1)
    /\ requests > 0

(***************************************************************************)
(* C5: when the handling of a ConnAck is over, exactly one publish was     *)
(* made for it, of "true" on base/connected; the handling of any other     *)
(* notification makes none.                                                *)
(***************************************************************************)
C5_OnePerConnAck ==
    /\ (notification = "ConnAck" /\ mainPc \in {"yield", "poll"}) =>
          /\ Len(evPubs) = 1
          /\ evPubs[1].topic = Leaf(topic, ConnectedLeaf)
          /\ evPubs[1].payload = TrueText
    /\ (notification # "ConnAck" \/ mainPc = "handle") => evPubs = <<>>

\* a ConnAck was handled and its publish is in the channel
C5_Witness ==
    /\ notification = "ConnAck"
    /\ mainPc = "poll"
    /\ Len(evPubs) = 1
    /\ evPubs[1].ok
    /\ requests > 0

(***************************************************************************)
(* C6: no publish of the program carries "false"; the last will is set     *)
(* once, retained, at least once, with "false", before the client exists,  *)
(* and every publish of the connection loop goes to the last will's topic. *)
(***************************************************************************)
C6_FalseOnlyByWill ==
    /\ \A i \in 1..Len(evPubs) : evPubs[i].payload # FalseText
    /\ \A i \in 1..Len(tickPubs) : tickPubs[i].payload # FalseText
    /\ handles > 0 =>
          /\ Len(last_will) = 1
          /\ last_will[1].message = FalseText
          /\ last_will[1].retain
          /\ last_will[1].qos = "AtLeastOnce"
          /\ last_will[1].topic = Leaf(topic, ConnectedLeaf)
    /\ \A i \in 1..Len(evPubs) :
          /\ Len(last_will) = 1
          /\ evPubs[i].topic = last_will[1].topic

\* connected = true went to the topic of the last will
C6_Witness ==
    /\ Len(evPubs) = 1
    /\ evPubs[1].payload = TrueText
    /\ evPubs[1].ok
    /\ Len(last_will) = 1
    /\ evPubs[1].topic = last_will[1].topic

(***************************************************************************)
(* C7: after an Err the connection loop publishes nothing, stays in the    *)
(* loop with the client and connection made at startup, and asks for the   *)
(* next notification only when at least ten seconds have passed.           *)
(***************************************************************************)
C7_ErrBacksOff ==
    notification = "Err" =>
        /\ evPubs = <<>>
        /\ mainPc \in LoopPcs
        /\ handles >= 1
        /\ Len(last_will) = 1
        /\ mainPc \in {"yield", "poll"} => sinceErr >= BackoffSecs
        /\ mainPc = "backoff" => mainSleep + sinceErr >= BackoffSecs

\* the loop is about to ask for the notification after an Err
C7_Witness ==
    /\ notification = "Err"
    /\ mainPc = "poll"
    /\ sinceErr = BackoffSecs
    /\ requests > 0

(***************************************************************************)
(* C8: when the host name or the URL is refused, run returns its error     *)
(* with no last will set, no client, no sampling thread, no notification   *)
(* asked for, no sample taken and no publish made; a run never gets past   *)
(* a refused host name or URL.                                             *)
(***************************************************************************)
NothingStarted ==
    /\ last_will = <<>>
    /\ handles = 0
    /\ requests = 0
    /\ samplerPc = "unspawned"
    /\ notification = "none"
    /\ idle = None
    /\ tickPubs = <<>>
    /\ evPubs = <<>>

C8_StartupErrors ==
    /\ mainPc = "returned_err" => NothingStarted
    /\ hostname = None => mainPc \in {"hostname", "returned_err"}
    /\ (args.mqtt_url.scheme \notin {"mqtt", "mqtts"} \/ ~args.mqtt_url.client_id)
          => mainPc \in {"hostname", "parse_url", "returned_err"}

\* the URL was refused after the host name was accepted
C8_Witness ==
    /\ mainPc = "returned_err"
    /\ hostname # None
    /\ args.mqtt_url.scheme = "http"

(***************************************************************************)
(* C9: once both loops run, and as long as the timestamp subtraction does  *)
(* not overflow, run does not return, no loop exits and no loop waits      *)
(* forever: the connection loop is never inside a publish that cannot      *)
(* return (only the connection loop itself empties the channel).           *)
(***************************************************************************)
C9_LoopsGoOn ==
    (mainPc \notin {"hostname", "parse_url", "last_will", "client_new", "spawn",
                    "returned_err"}
       /\ samplerPc # "panicked")
      => /\ mainPc \in LoopPcs
         /\ samplerPc \in PublishPcs \cup {"sleep"}
         /\ ~MainBlocked

(***************************************************************************)
(* C10: a loop that is stalled, in a publish that cannot return or in the  *)
(* error backoff, does not keep the other loop from going on.              *)
(***************************************************************************)
C10_StallIndependently ==
    /\ (mainPc = "backoff" \/ MainBlocked) => ~SamplerBlocked
    /\ SamplerBlocked => ~MainBlocked

(***************************************************************************)
(* C11: every publish call of the program asks for at least once and       *)
(* retained and goes to root/host/leaf, where root is the root topic of    *)
(* the command line and host the host name read at startup with its upper  *)
(* case letters made lower case; the sampling thread publishes only on     *)
(* idle_seconds, idle_status and last_active_timestamp, the connection     *)
(* loop only on connected.                                                 *)
(***************************************************************************)
C11_TopicsAndFlags ==
    LET base == args.mqtt_root_topic \o <<"/">> \o hostname
    IN  /\ \A i \in 1..Len(tickPubs) :
              /\ tickPubs[i].qos = "AtLeastOnce"
              /\ tickPubs[i].retain
              /\ \E leaf \in {IdleSecondsLeaf, IdleStatusLeaf, LastActiveLeaf} :
                    tickPubs[i].topic = base \o <<"/">> \o leaf
        /\ \A i \in 1..Len(evPubs) :
              /\ evPubs[i].qos = "AtLeastOnce"
              /\ evPubs[i].retain
              /\ evPubs[i].topic = base \o <<"/">> \o ConnectedLeaf
        /\ hostname # None =>
              /\ \E h \in HostnameResults : h.ok /\ IsLowerCaseOf(hostname, h.name)
              /\ topic = base

\* both threads have published: the three idle leaves and connected
C11_Witness ==
    /\ Len(tickPubs) = 3
    /\ Len(evPubs) = 1
    /\ \A i \in 1..3 : tickPubs[i].ok
    /\ evPubs[1].ok
    /\ tickPubs[3].topic = <<"m", "o", "d", "o", "/", "m", "y", "h", "/">> \o LastActiveLeaf

(***************************************************************************)
(* C12: the payload of a last_active_timestamp publish names, to the       *)
(* second and in UTC, the whole seconds of the clock reading of the tick   *)
(* (its fraction of a second dropped) less the tick's sample; so the       *)
(* payload is a function of these two.                                     *)
(***************************************************************************)
C12_LastActiveIsNowLessIdle ==
    \A i \in OnLeaf(tickPubs, LastActiveLeaf) :
        /\ utc_now \in NowValues
        /\ idle[1] = 0 /\ idle[2] = 0 /\ idle[3] = 0
        /\ IsWholeSecondUtc(tickPubs[i].payload)
        /\ SecondsOfRfc3339(tickPubs[i].payload) = utc_now.secs - idle[4]

\* the clock stood 1 ms before midnight and the sample was 2 s
C12_Witness ==
    /\ utc_now = [secs |-> 86399, millis |-> 999]
    /\ idle = U64(2)
    /\ Len(tickPubs) = 3
    /\ tickPubs[3].payload =
          <<"1", "9", "7", "0", "-", "0", "1", "-", "0", "1", "T", "2", "3", ":",
            "5", "9", ":", "5", "7", "+", "0", "0", ":", "0", "0">>

(***************************************************************************)
(* C13, as stated: for every pair of thresholds, also one with             *)
(* threshold_active >= threshold_idle, a sample below threshold_active is  *)
(* published as "active", a sample at or above threshold_active and below  *)
(* threshold_idle as "idle", and a sample at or above threshold_idle as    *)
(* "away".                                                                 *)
(***************************************************************************)
C13_RulesForEveryPair ==
    \A i \in OnLeaf(tickPubs, IdleStatusLeaf) :
        LET p == tickPubs[i].payload
        IN  /\ Lt(idle, args.threshold_active) => p = ActiveText
            /\ (~Lt(idle, args.threshold_active) /\ Lt(idle, args.threshold_idle))
                  => p = IdleText
            /\ ~Lt(idle, args.threshold_idle) => p = AwayText

(***************************************************************************)
(* C13, amended: for every pair of thresholds the rules apply in their     *)
(* order, the first that fits deciding: a sample below threshold_active is *)
(* "active"; a sample is "away" when it is at or above threshold_idle and  *)
(* not below threshold_active; "idle" is as stated.                        *)
(***************************************************************************)
C13_FirstRuleDecides ==
    \A i \in OnLeaf(tickPubs, IdleStatusLeaf) :
        LET p == tickPubs[i].payload
        IN  /\ Lt(idle, args.threshold_active) => p = ActiveText
            /\ (~Lt(idle, args.threshold_active) /\ Lt(idle, args.threshold_idle))
                  => p = IdleText
            /\ (~Lt(idle, args.threshold_active) /\ ~Lt(idle, args.threshold_idle))
                  => p = AwayText

\* threshold_active above threshold_idle, a sample between them: "active"
C13_Witness ==
    /\ IsSample(idle)
    /\ Gt(args.threshold_active, args.threshold_idle)
    /\ ~Lt(idle, args.threshold_idle)
    /\ Lt(idle, args.threshold_active)
    /\ \E i \in OnLeaf(tickPubs, IdleStatusLeaf) : tickPubs[i].payload = ActiveText

(***************************************************************************)
(* C14: a tick with a sample that is not above the sample of the last      *)
(* earlier tick that had one (and small enough for the timestamp to be     *)
(* computed) ends with last_active_timestamp published.                    *)
(***************************************************************************)
C14_NotClimbingPublishes ==
    [][(/\ TickEnds
        /\ IsSample(previous_idle_sec)
        /\ ~Gt(idle, previous_idle_sec)
        /\ ~SubOverflows(idle))
          => OnLeaf(tickPubs, LastActiveLeaf)' # {}]_vars

(***************************************************************************)
(* C15: the first tick that has a sample, whatever the sample and however  *)
(* many samples failed before it, passes the gate: it does not end at line *)
(* 84 without a last_active_timestamp.                                     *)
(***************************************************************************)
C15_FirstSamplePublishes ==
    [][(/\ TickEnds
        /\ previous_idle_sec = None
        /\ samplerPc' = "sleep")
          => OnLeaf(tickPubs, LastActiveLeaf)' # {}]_vars

(***************************************************************************)
(* C16: once set at line 49, previous_published_idle_sec changes only in   *)
(* the step of the sampling thread that makes the timestamp publish of a   *)
(* tick whose sample passed the gate, and that step sets it to the tick's  *)
(* sample whether the publish went well or not; a suppressed tick, a       *)
(* failed sample and every step of the connection loop leave it alone.     *)
(***************************************************************************)
C16_GateValueFrame ==
    [][/\ (samplerPc # "unspawned"
             /\ previous_published_idle_sec' # previous_published_idle_sec)
          => /\ samplerPc = "pub_ts"
             /\ samplerPc' = "sleep"
             /\ ~Gt(idle, previous_published_idle_sec)
             /\ Len(tickPubs') = Len(tickPubs) + 1
             /\ OnLeaf(tickPubs, LastActiveLeaf)' = {Len(tickPubs')}
             /\ mainVars' = mainVars
       /\ (samplerPc = "pub_ts" /\ samplerPc' = "sleep")
          => previous_published_idle_sec' = idle
       /\ (\/ samplerPc = "pub_status" /\ samplerPc' = "sleep"
           \/ SampleFails
           \/ mainPc \in LoopPcs /\ mainVars' # mainVars)
          => previous_published_idle_sec' = previous_published_idle_sec]_vars

\* the timestamp publish failed and the gate value is the tick's sample
C16_Witness ==
    /\ samplerPc = "sleep"
    /\ Len(tickPubs) = 3
    /\ ~tickPubs[3].ok
    /\ idle = U64(1)
    /\ previous_published_idle_sec = U64(1)

(***************************************************************************)
(* C17: a publish that fails is not made again in the tick and does not    *)
(* end the tick: a tick makes at most one publish call for each leaf; the  *)
(* idle_seconds call, failed or not, is followed by the idle_status call;  *)
(* the idle_status call, failed or not, is followed by the gate of line 83 *)
(* and, when the gate is passed and the timestamp can be computed, by the  *)
(* timestamp call; and the idle_seconds call of a tick carries the sample  *)
(* of that tick.                                                           *)
(***************************************************************************)
C17_FailureNeitherRetriesNorAborts ==
    [][/\ \A leaf \in {IdleSecondsLeaf, IdleStatusLeaf, LastActiveLeaf} :
             Cardinality(OnLeaf(tickPubs, leaf))' <= 1
       /\ (samplerPc = "pub_seconds" /\ samplerPc' # samplerPc)
          => /\ samplerPc' = "pub_status"
             /\ OnLeaf(tickPubs, IdleSecondsLeaf)' = {1}
             /\ ParseDecimal(tickPubs'[1].payload) = idle
       /\ (samplerPc = "pub_status" /\ samplerPc' # samplerPc)
          => /\ OnLeaf(tickPubs, IdleStatusLeaf)' = {2}
             /\ samplerPc' = IF Gt(idle, previous_published_idle_sec)
                             THEN "sleep" ELSE "pub_ts"
       /\ (samplerPc = "pub_ts" /\ samplerPc' # samplerPc /\ ~SubOverflows(idle))
          => /\ OnLeaf(tickPubs, LastActiveLeaf)' = {3}
             /\ samplerPc' = "sleep"]_vars

\* a tick whose three publish calls all failed
C17_Witness ==
    /\ samplerPc = "sleep"
    /\ Len(tickPubs) = 3
    /\ \A i \in 1..3 : ~tickPubs[i].ok
    /\ OnLeaf(tickPubs, LastActiveLeaf) = {3}

(***************************************************************************)
(* C18: in the connection loop only the handling of a ConnAck makes a      *)
(* publish call; the handling of any other notification that is not an Err *)
(* makes none, puts nothing into the request channel, and goes on to the   *)
(* 100 ms sleep and from there to the next notification; the loop is never *)
(* left.                                                                   *)
(***************************************************************************)
C18_OnlyConnAckPublishes ==
    [][/\ (mainPc = "handle" /\ mainPc' # mainPc /\ notification \notin {"ConnAck", "Err"})
          => /\ evPubs' = <<>>
             /\ requests' = requests
             /\ mainPc' = "yield"
       /\ (evPubs' # evPubs /\ evPubs' # <<>>) => notification = "ConnAck"
       /\ (mainPc = "yield" /\ mainPc' # mainPc) => mainPc' = "poll"
       /\ mainPc \in LoopPcs => mainPc' \in LoopPcs]_vars

\* a packet of no known kind was handled and the loop asks for the next one
C18_Witness ==
    /\ notification = "IncomingOther"
    /\ mainPc = "poll"
    /\ evPubs = <<>>
    /\ requests > 0

(***************************************************************************)
(* C19: previous_published_idle_sec, once set, never goes up, and a        *)
(* last_active_timestamp publish is made only for a sample that is not     *)
(* above it and makes the sample the new value; so after a timestamp was   *)
(* published for a sample v no timestamp is published for a sample above   *)
(* v.                                                                      *)
(***************************************************************************)
C19_GateValueNeverGrows ==
    [][/\ samplerPc # "unspawned"
          => ~Gt(previous_published_idle_sec', previous_published_idle_sec)
       /\ OnLeaf(tickPubs, LastActiveLeaf)' \ OnLeaf(tickPubs, LastActiveLeaf) # {}
          => /\ ~Gt(idle, previous_published_idle_sec)
             /\ previous_published_idle_sec' = idle]_vars

\* after a timestamp for a sample of 0 a sample of 2 was suppressed
C19_Witness ==
    /\ samplerPc = "sleep"
    /\ previous_published_idle_sec = U64(0)
    /\ idle = U64(2)
    /\ Len(tickPubs) = 2
    /\ OnLeaf(tickPubs, LastActiveLeaf) = {}

(***************************************************************************)
(* C20: the publish call of the ConnAck arm can always return: when a      *)
(* ConnAck is being handled there is room in the request channel (nothing  *)
(* takes requests out of it while the connection loop is in the call).     *)
(***************************************************************************)
C20_ConnectedPublishReturns ==
    (mainPc = "handle" /\ notification = "ConnAck")
        => CanReturn(ConnectedPublication.topic)

====
